---- MODULE Spec2Model ----
(***************************************************************************)
(* A model of the code-execution adapter of this repository:               *)
(*   src/UnsafeCodeExecutionTool.py        Tools._run_code   ("tools")     *)
(*   src/open-webui/functions/run_code.py  Action.action     ("action")    *)
(* together with the EventEmitter and CodeExecutionTracker classes both    *)
(* files carry.  Text is a sequence of one-character strings.              *)
(***************************************************************************)
EXTENDS Integers, Sequences, FiniteSets, TLC

VARIABLES
    \* ---- one request (Tools._run_code / Action.action)
    variant,        \* "tools" | "action" | "none" (no request in this behaviour)
    debug,          \* valves.DEBUG
    language,       \* the language argument / the selector's language, or None
    rawInput,       \* tools: the code argument; action: the body argument
    code,           \* the local variable code
    pc,             \* the position of the coroutine
    status,         \* the local variable status
    output,         \* the local variable output
    result,         \* the value returned to the caller, or None
    outcome,        \* what subprocess.run did, or None before it ran
    launches,       \* how many times subprocess.run was called
    tmpdir,         \* "absent" | "exists" | "deleted"
    tracker,        \* the CodeExecutionTracker, or None
    failArgs,       \* the arguments of the pending _fail call, or None
    \* ---- the EventEmitter and its sink
    sinkKind,       \* "absent" | "sync" | "async" | "faulty"
    emitted_status, \* EventEmitter._emitted_status
    status_prefix,  \* EventEmitter._status_prefix
    queue,          \* the sink invocations the running _emit has still to make
    inflight,       \* how many awaitables returned by the sink have not completed
    log,            \* every sink invocation so far, in order
    sinkRaised,     \* some sink invocation raised
    \* ---- a caller of single methods and pure functions
    calls,          \* the method calls made so far, each with what it delivered
    fnArg,          \* the argument a pure function is applied to
    fnRes,          \* its results so far
    \* ---- requests running as tasks of one event loop
    tasks,          \* each task: its variant, the await it stands at, suspended or not
    loop            \* the task the event loop's thread is running, or 0 when idle

reqVars == <<variant, debug, language, rawInput, code, pc, status, output,
             result, outcome, launches, tmpdir, tracker, failArgs>>
reqVarsButPc == <<variant, debug, language, rawInput, code, status, output,
                  result, outcome, launches, tmpdir, tracker, failArgs>>
emVars  == <<sinkKind, emitted_status, status_prefix, queue, inflight, log,
             sinkRaised>>
loopVars == <<tasks, loop>>
fnVars  == <<calls, fnArg, fnRes, loopVars>>
vars    == <<reqVars, emVars, fnVars>>

None == "None"            \* Python's None, where the other values are strings
NoText == <<"<None>">>    \* Python's None, where the other values are text

(***************************************************************************)
(* Bounds of the model.                                                    *)
(***************************************************************************)
MaxNormTokens == 5     \* pieces of the text given to the normalizer
MaxBlocks == 3         \* fenced blocks of the message given to the selector
MaxCalls == 3          \* method calls made on one EventEmitter
MaxTasks == 2          \* requests running as tasks of one event loop

(***************************************************************************)
(* Text: Python's str methods, as the code uses them.                      *)
(***************************************************************************)
BT == "BQ"    \* the backquote character (no string of the language can hold it)
NL == "\n"
SP == " "
Whitespace == {SP, NL, "\t"}
Fence == <<BT, BT, BT>>
PythonWord == <<"p", "y", "t", "h", "o", "n">>
Python3Word == PythonWord \o <<"3">>
BashWord == <<"b", "a", "s", "h">>
ShWord == <<"s", "h">>
ShellWord == <<"s", "h", "e", "l", "l">>
RubyWord == <<"r", "u", "b", "y">>
Shebang == <<"#", "!">>
ImportSp == <<"i", "m", "p", "o", "r", "t", SP>>
PrintParen == <<"p", "r", "i", "n", "t", "(">>
PrintSp == <<"p", "r", "i", "n", "t", SP>>
EchoSp == <<"e", "c", "h", "o", SP>>
IfBracket == <<"i", "f", SP, "[">>
SemiDo == <<";", SP, "d", "o">>
EsacNl == <<"e", "s", "a", "c", NL>>

\* The characters of a language name ("python", "bash", or a name no
\* interpreter is known for).
LangWord(lang) ==
    IF lang = "python" THEN PythonWord
    ELSE IF lang = "bash" THEN BashWord
    ELSE RubyWord

RECURSIVE LStripChars(_, _)
LStripChars(s, cs) ==
    IF s /= <<>> /\ Head(s) \in cs THEN LStripChars(Tail(s), cs) ELSE s

RECURSIVE RStripChars(_, _)
RStripChars(s, cs) ==
    IF s /= <<>> /\ s[Len(s)] \in cs
    THEN RStripChars(SubSeq(s, 1, Len(s) - 1), cs)
    ELSE s

StripChars(s, cs) == RStripChars(LStripChars(s, cs), cs)

Strip(s) == StripChars(s, Whitespace)

StartsWith(s, p) == Len(p) <= Len(s) /\ SubSeq(s, 1, Len(p)) = p

EndsWith(s, p) == Len(p) <= Len(s) /\ SubSeq(s, Len(s) - Len(p) + 1, Len(s)) = p

RemovePrefix(s, p) ==
    IF StartsWith(s, p) THEN SubSeq(s, Len(p) + 1, Len(s)) ELSE s

RemoveSuffix(s, p) ==
    IF p /= <<>> /\ EndsWith(s, p) THEN SubSeq(s, 1, Len(s) - Len(p)) ELSE s

Contains(s, sub) ==
    \E i \in 1..(Len(s) - Len(sub) + 1) : SubSeq(s, i, i + Len(sub) - 1) = sub

\* str.split(sep): cut at the leftmost occurrences of sep, left to right.
RECURSIVE SplitFrom(_, _, _)
SplitFrom(s, sep, cur) ==
    IF s = <<>> THEN <<cur>>
    ELSE IF StartsWith(s, sep)
         THEN <<cur>> \o SplitFrom(SubSeq(s, Len(sep) + 1, Len(s)), sep, <<>>)
         ELSE SplitFrom(Tail(s), sep, Append(cur, Head(s)))

Split(s, sep) == SplitFrom(s, sep, <<>>)

RECURSIVE Flatten(_)
Flatten(ss) == IF ss = <<>> THEN <<>> ELSE Head(ss) \o Flatten(Tail(ss))

(***************************************************************************)
(* Code Normalizer of Tools._run_code.                                     *)
(***************************************************************************)
Normalize(lang, text) ==
    LET c1 == Strip(text)
        c2 == RemoveSuffix(RemovePrefix(RemovePrefix(c1, Fence \o LangWord(lang)),
                                        Fence), Fence)
        c3 == Strip(c2)
    IN  Strip(StripChars(c3, {BT}))

(***************************************************************************)
(* Source Selector of Action.action.  A body is [has_messages, messages]:  *)
(* whether it has the key "messages", and the sequence of [role, content]  *)
(* under it.                                                               *)
(***************************************************************************)
NoChoice == [block |-> NoText, language |-> None]

LastMessage(body) == body.messages[Len(body.messages)]

SplitThreeBackticks(body) == Split(LastMessage(body).content, Fence)

\* A slip in the validation: the parity of the segment count is not checked.
ValidationErrorNoParity(body) ==
    IF ~body.has_messages \/ body.messages = <<>>
    THEN "No messages in conversation."
    ELSE IF LastMessage(body).role /= "assistant"
    THEN "Last message was not from the AI model."
    ELSE IF Len(SplitThreeBackticks(body)) < 3
    THEN "Last message did not contain well-formed code blocks."
    ELSE None

\* The message of the validation that rejects the body, or None.
ValidationError(body) ==
    IF ~body.has_messages \/ body.messages = <<>>
    THEN "No messages in conversation."
    ELSE IF LastMessage(body).role /= "assistant"
    THEN "Last message was not from the AI model."
    ELSE IF Len(SplitThreeBackticks(body)) < 3
            \/ Len(SplitThreeBackticks(body)) % 2 /= 1
    THEN "Last message did not contain well-formed code blocks."
    ELSE None

IsPythonTagged(block) ==
    StartsWith(block, PythonWord \o <<NL>>) \/ StartsWith(block, Python3Word \o <<NL>>)

IsShellTagged(block) ==
    \/ StartsWith(block, BashWord \o <<NL>>)
    \/ StartsWith(block, ShWord \o <<NL>>)
    \/ StartsWith(block, ShellWord \o <<NL>>)

\* The loop over split_three_backticks[-2:0:-2]: segment i of the list
\* (counted from 1 here, from 0 in the code), then i - 2, down to segment 2.
RECURSIVE ScanFrom(_, _, _)
ScanFrom(segs, i, chosen) ==
    IF i < 2 THEN chosen
    ELSE IF IsPythonTagged(segs[i])
         THEN ScanFrom(segs, i - 2, [block |-> segs[i], language |-> "python"])
    ELSE IF IsShellTagged(segs[i])
         THEN [block |-> segs[i], language |-> "bash"]
    ELSE ScanFrom(segs, i - 2, chosen)

\* A slip in the scan: it stops at the newest tagged block of either language.
RECURSIVE ScanNewestTagged(_, _)
ScanNewestTagged(segs, i) ==
    IF i < 2 THEN NoChoice
    ELSE IF IsPythonTagged(segs[i]) THEN [block |-> segs[i], language |-> "python"]
    ELSE IF IsShellTagged(segs[i]) THEN [block |-> segs[i], language |-> "bash"]
    ELSE ScanNewestTagged(segs, i - 2)

ReverseScanStopsAtPython(segs) == ScanNewestTagged(segs, Len(segs) - 1)

ReverseScan(segs) == ScanFrom(segs, Len(segs) - 1, NoChoice)

FirstLine(block) == Split(Strip(block), <<NL>>)[1]

Fallback(last_code_block) ==
    LET first_line == FirstLine(last_code_block)
    IN  IF StartsWith(first_line, Shebang)
           /\ (EndsWith(first_line, PythonWord) \/ EndsWith(first_line, Python3Word))
        THEN [block |-> last_code_block, language |-> "python"]
        ELSE IF StartsWith(first_line, Shebang) /\ EndsWith(first_line, ShWord)
        THEN [block |-> last_code_block, language |-> "bash"]
        ELSE IF \E python_like \in {ImportSp, PrintParen, PrintSp} :
                    Contains(last_code_block, python_like)
        THEN [block |-> last_code_block, language |-> "python"]
        ELSE IF \E bash_like \in {EchoSp, IfBracket, SemiDo, EsacNl} :
                    Contains(last_code_block, bash_like)
        THEN [block |-> last_code_block, language |-> "bash"]
        ELSE NoChoice

\* "not chosen_code_block": None and the empty string are both false.
Falsy(text) == text = NoText \/ text = <<>>

ChooseBlock(segs) ==
    IF Falsy(ReverseScan(segs).block)
    THEN Fallback(segs[Len(segs) - 1])
    ELSE ReverseScan(segs)

\* The code handed to the interpreter by Action.action.
ActionCode(choice) ==
    Strip(IF choice.language = "python"
          THEN RemovePrefix(RemovePrefix(choice.block, Python3Word), PythonWord)
          ELSE IF choice.language = "bash"
          THEN RemovePrefix(RemovePrefix(RemovePrefix(choice.block, ShellWord),
                                         BashWord), ShWord)
          ELSE choice.block)

(***************************************************************************)
(* CodeExecutionTracker.  _result is a dict with the optional keys         *)
(* "output" and "error": has_output and has_error say which keys it has.   *)
(* set_output_calls and set_error_calls count the calls of the two setters.*)
(***************************************************************************)
NoTracker ==
    [created |-> FALSE, name |-> <<>>, code |-> NoText, language |-> None,
     has_output |-> FALSE, output |-> NoText, has_error |-> FALSE, error |-> NoText,
     set_output_calls |-> 0, set_error_calls |-> 0]

NewTracker(name, c, lang) ==
    [NoTracker EXCEPT !.created = TRUE, !.name = name, !.code = c, !.language = lang]

SetError(tr, error) ==
    [tr EXCEPT !.has_error = TRUE, !.error = error,
               !.set_error_calls = tr.set_error_calls + 1]

SetOutput(tr, out) ==
    [tr EXCEPT !.has_output = TRUE, !.output = out,
               !.set_output_calls = tr.set_output_calls + 1]

\* A slip in _citation_data: only the key "output" is looked for.
CitationDataOutputOnly(tr) ==
    [type |-> "code_execution", name |-> tr.name, code |-> tr.code,
     language |-> tr.language,
     has_result |-> tr.has_output,
     result |-> [has_output |-> tr.has_output, output |-> tr.output,
                 has_error |-> tr.has_error, error |-> tr.error]]

CitationData(tr) ==
    [type |-> "code_execution", name |-> tr.name, code |-> tr.code,
     language |-> tr.language,
     has_result |-> (tr.has_output \/ tr.has_error),
     result |-> [has_output |-> tr.has_output, output |-> tr.output,
                 has_error |-> tr.has_error, error |-> tr.error]]

(***************************************************************************)
(* EventEmitter.  A description is [text, len]: its pieces in order and    *)
(* its length in characters.  A method call fills queue with the sink      *)
(* invocations its _emit makes; SinkInvoke makes them one by one, and the  *)
(* caller goes on when none is left and none is in flight.                 *)
(***************************************************************************)
Desc(text, n) == [text |-> <<text>>, len |-> n]
EmptyDesc == [text |-> <<>>, len |-> 0]
NoPrefix == [text |-> <<"<None>">>, len |-> 0]
ConcatDesc(a, b) == [text |-> a.text \o b.text, len |-> a.len + b.len]

STATUS_TWICE_MAX_LEN == 1024

\* A slip in _emit: the absence of a sink is not checked.
EmitInvocationsIgnoresAbsence(typ, data, twice) ==
    IF twice THEN <<[type |-> typ, data |-> data], [type |-> typ, data |-> data]>>
    ELSE <<[type |-> typ, data |-> data]>>

\* _emit: nothing without a sink, else one invocation or two of them.
EmitInvocations(typ, data, twice) ==
    IF sinkKind = "absent" THEN <<>>
    ELSE IF twice THEN <<[type |-> typ, data |-> data], [type |-> typ, data |-> data]>>
    ELSE <<[type |-> typ, data |-> data]>>

\* A slip in status: the prefix is not prepended.
PrefixedNever(description) == description

Prefixed(description) ==
    IF status_prefix /= NoPrefix /\ status_prefix /= EmptyDesc
    THEN ConcatDesc(status_prefix, description)
    ELSE description

\* A slip in status: a description of exactly the limit is not repeated.
EmStatusStrictLimit(description, st, done) ==
    /\ emitted_status' = TRUE
    /\ queue' = EmitInvocations("status",
                    [status |-> st, description |-> Prefixed(description), done |-> done],
                    ~done /\ Prefixed(description).len < STATUS_TWICE_MAX_LEN)

EmStatus(description, st, done) ==
    /\ emitted_status' = TRUE
    /\ queue' = EmitInvocations("status",
                    [status |-> st, description |-> Prefixed(description), done |-> done],
                    ~done /\ Prefixed(description).len <= STATUS_TWICE_MAX_LEN)

EmFail(description) == EmStatus(description, "error", TRUE)

\* A slip in clear_status: the flag is not reset.
EmClearStatusKeepsFlag ==
    IF ~emitted_status
    THEN queue' = <<>> /\ UNCHANGED emitted_status
    ELSE /\ UNCHANGED emitted_status
         /\ queue' = EmitInvocations("status",
                        [status |-> "complete", description |-> EmptyDesc, done |-> TRUE],
                        TRUE)

EmClearStatus ==
    IF ~emitted_status
    THEN queue' = <<>> /\ UNCHANGED emitted_status
    ELSE /\ emitted_status' = FALSE
         /\ queue' = EmitInvocations("status",
                        [status |-> "complete", description |-> EmptyDesc, done |-> TRUE],
                        TRUE)

EmMessage(content) ==
    /\ queue' = EmitInvocations("message", [content |-> content], FALSE)
    /\ UNCHANGED emitted_status

\* A slip in code_execution: the citation is not repeated.
EmCodeExecutionOnce(tr) ==
    /\ queue' = EmitInvocations("citation", CitationData(tr), FALSE)
    /\ UNCHANGED emitted_status

EmCodeExecution(tr) ==
    /\ queue' = EmitInvocations("citation", CitationData(tr), TRUE)
    /\ UNCHANGED emitted_status

\* A slip in _emit: the awaitable the sink returns is left pending.
AwaitedNever == TRUE

\* result = await maybe_future: _emit goes on when the awaitable has completed.
Awaited == inflight = 0

\* The caller of the emitter is between two awaits of its methods.
Ready == queue = <<>> /\ Awaited

emRest == <<sinkKind, status_prefix, inflight, log, sinkRaised>>

(***************************************************************************)
(* The inputs of a request.                                                *)
(***************************************************************************)
Languages == {"python", "bash", "ruby"}
SinkKinds == {"absent", "sync", "async", "faulty"}

T(lang) == IF lang = "python" THEN "Python" ELSE IF lang = "bash" THEN "Bash" ELSE "Ruby"

CodeSamples ==
    { <<"x">>,
      Fence \o PythonWord \o <<NL, "x", NL>> \o Fence,
      <<SP, BT, SP, BT, "x", NL>> }

Msg(role, content) == [role |-> role, content |-> content]
Body(messages) == [has_messages |-> TRUE, messages |-> messages]
NoMessagesKey == [has_messages |-> FALSE, messages |-> <<>>]
NoBody == NoMessagesKey

Fenced(block) == Fence \o block \o Fence

BodySamples ==
    { NoMessagesKey,
      Body(<<>>),
      Body(<<Msg("assistant", Fenced(PythonWord \o <<NL, "x">>)), Msg("user", <<"g", "o">>)>>),
      Body(<<Msg("assistant", <<"n", "o">>)>>),
      Body(<<Msg("assistant", Fence \o <<"x">>)>>),
      Body(<<Msg("assistant", Fenced(<<"x">>) \o Fence \o <<"y">>)>>),
      Body(<<Msg("assistant", Fenced(<<"x", "=", "1">>))>>),
      Body(<<Msg("assistant", Fenced(PythonWord \o <<NL>> \o PrintParen \o <<"1", ")", NL>>))>>),
      Body(<<Msg("user", <<"r", "u", "n">>),
             Msg("assistant", <<"a">> \o Fenced(BashWord \o <<NL, "l", "s">>) \o <<"b">>
                               \o Fenced(Python3Word \o <<NL, "x">>))>>),
      Body(<<Msg("assistant", Fenced(Shebang \o <<"/">> \o ShWord \o <<NL, "l", "s">>))>>),
      Body(<<Msg("assistant", Fenced(<<NL>> \o EchoSp \o <<"x", NL>>))>>) }

StdoutTexts == { <<>>, <<SP, "h", "i", NL>>, <<NL>> }
StderrTexts == { <<>>, <<"b", "o", "o", "m", NL>>, <<SP>> }
ReturnCodes == {0, 1, 2}

NoOutcome == [kind |-> "none", returncode |-> 0, stdout |-> NoText, stderr |-> NoText]

\* What subprocess.run can do: the process exits, the timeout expires (with
\* the standard error read so far, or None when none was read), or the call
\* raises another exception (the interpreter cannot be started).
Outcomes ==
    { [kind |-> "exit", returncode |-> rc, stdout |-> so, stderr |-> se] :
          rc \in ReturnCodes, so \in StdoutTexts, se \in StderrTexts }
    \cup { [kind |-> "timeout", returncode |-> 0, stdout |-> NoText, stderr |-> se] :
          se \in StderrTexts \cup {NoText} }
    \cup { [kind |-> "oserror", returncode |-> 0, stdout |-> NoText, stderr |-> NoText] }

NoResult == [status |-> None, output |-> NoText]
NoFail == [message |-> NoText, status |-> None]

\* No request runs as a task of an event loop.
IdleLoop == tasks = <<>> /\ loop = 0

EmitterInit ==
    /\ sinkKind \in SinkKinds
    /\ emitted_status = FALSE
    /\ status_prefix = NoPrefix
    /\ queue = <<>>
    /\ inflight = 0
    /\ log = <<>>
    /\ sinkRaised = FALSE

Init ==
    /\ variant \in {"tools", "action"}
    /\ debug \in BOOLEAN
    /\ \/ /\ variant = "tools"
          /\ language \in Languages
          /\ rawInput \in { [code |-> c, body |-> NoBody] : c \in CodeSamples }
       \/ /\ variant = "action"
          /\ language = None
          /\ rawInput \in { [code |-> NoText, body |-> b] : b \in BodySamples }
    /\ code = NoText
    /\ pc = "start"
    /\ status = None
    /\ output = NoText
    /\ result = NoResult
    /\ outcome = NoOutcome
    /\ launches = 0
    /\ tmpdir = "absent"
    /\ tracker = NoTracker
    /\ failArgs = NoFail
    /\ EmitterInit
    /\ calls = <<>>
    /\ IdleLoop
    /\ fnArg = <<>>
    /\ fnRes = <<>>

(***************************************************************************)
(* One request: Tools._run_code and Action.action.  Each action is the     *)
(* code from one await of an emitter method to the next.                   *)
(***************************************************************************)
Interpreter(lang) ==
    IF lang = "bash" THEN "/bin/bash"
    ELSE IF lang = "python" THEN "sys.executable"
    ELSE None

\* A slip in the classification: the error branch keeps the standard output.
ClassifyExitKeepsStdout(oc) ==
    IF oc.returncode /= 0
    THEN [status |-> "ERROR", output |-> oc.stdout]
    ELSE [status |-> "OK", output |-> oc.stdout]

\* result.returncode != 0 -> ERROR with stderr, else OK with stdout.
ClassifyExit(oc) ==
    IF oc.returncode /= 0
    THEN [status |-> "ERROR", output |-> oc.stderr]
    ELSE [status |-> "OK", output |-> oc.stdout]

\* if output: output = output.strip()
TrimOutput(out) == IF Falsy(out) THEN out ELSE Strip(out)

TimedOutText == <<"Code timed out after MAX_RUNTIME_SECONDS seconds">>
TimedOutDesc == [text |-> TimedOutText, len |-> 31]

\* The status _fail returns when its caller passes none.
DefaultFailStatus == "SANDBOX_ERROR"

\* A slip in _fail: it returns the status of the enclosing scope, not its own
\* parameter.
FailResultOuterStatus(args) == [status |-> status, output |-> args.message]

\* What _fail returns.
FailResult(args) == [status |-> args.status, output |-> args.message]

Unhandled(what) == <<"Unhandled exception: ", what>>

\* A slip in the final message: the text is chosen by the status alone.
MessageContentByStatusOnly ==
    IF status = "OK"
    THEN [kind |-> "ok", language |-> language, code |-> code,
          output |-> IF variant = "tools" THEN Strip(output) ELSE output]
    ELSE IF status = "TIMEOUT"
    THEN [kind |-> "timeout_error", language |-> language, code |-> NoText, output |-> output]
    ELSE [kind |-> "error", language |-> language, code |-> NoText, output |-> output]

\* The text of the final message: which of the five variants, and what it
\* embeds.
MessageContent ==
    IF status = "OK"
    THEN [kind |-> "ok", language |-> language, code |-> code,
          output |-> IF variant = "tools" THEN Strip(output) ELSE output]
    ELSE IF status = "TIMEOUT" /\ ~Falsy(output)
    THEN [kind |-> "timeout_error", language |-> language, code |-> NoText, output |-> output]
    ELSE IF status = "TIMEOUT"
    THEN [kind |-> "timeout", language |-> language, code |-> NoText, output |-> NoText]
    ELSE IF status = "ERROR" /\ ~Falsy(output)
    THEN [kind |-> "error", language |-> language, code |-> NoText, output |-> output]
    ELSE [kind |-> "unexplained_error", language |-> language, code |-> NoText,
          output |-> NoText]

\* The positions whose pending emitter call stands inside the outer try.
GuardedPcs == {"publish", "run", "timeout_failed", "error_failed", "republished",
               "debugged", "final_citation", "return"}

ToolsBegin ==
    /\ variant = "tools" /\ pc = "start"
    /\ status' = "UNKNOWN"
    /\ output' = NoText
    /\ code' = Normalize(language, rawInput.code)
    /\ tracker' = NewTracker(<<T(language), " tool execution">>,
                             Normalize(language, rawInput.code), language)
    /\ EmClearStatus
    /\ pc' = "publish"
    /\ UNCHANGED <<variant, debug, language, rawInput, result, outcome, launches,
                   tmpdir, failArgs>>
    /\ UNCHANGED <<emRest, fnVars>>

ActionBegin ==
    /\ variant = "action" /\ pc = "start"
    /\ IF ValidationError(rawInput.body) /= None
       THEN /\ failArgs' = [message |-> <<ValidationError(rawInput.body)>>,
                            status |-> "INVALID_INPUT"]
            /\ pc' = "fail"
            /\ UNCHANGED <<language, code, tracker, emitted_status, queue>>
       ELSE LET choice == ChooseBlock(SplitThreeBackticks(rawInput.body))
            IN  IF Falsy(choice.block)
                THEN /\ failArgs' =
                          [message |-> <<"Message does not contain code blocks detected as Python or Bash.">>,
                           status |-> DefaultFailStatus]
                     /\ pc' = "fail"
                     /\ UNCHANGED <<language, code, tracker, emitted_status, queue>>
                ELSE /\ language' = choice.language
                     /\ code' = ActionCode(choice)
                     /\ tracker' = NewTracker(<<T(choice.language), " code block">>,
                                              ActionCode(choice), choice.language)
                     /\ EmClearStatus
                     /\ pc' = "publish"
                     /\ UNCHANGED failArgs
    /\ UNCHANGED <<variant, debug, rawInput, status, output, result, outcome, launches,
                   tmpdir>>
    /\ UNCHANGED <<emRest, fnVars>>

PublishTracker ==
    /\ pc = "publish" /\ Ready
    /\ EmCodeExecution(tracker)
    /\ pc' = "run"
    /\ UNCHANGED <<variant, debug, language, rawInput, code, status, output, result,
                   outcome, launches, tmpdir, tracker, failArgs>>
    /\ UNCHANGED <<emRest, fnVars>>

\* A slip at the end of the with block: the directory is left behind.
ExitScopeLeaks(dir) == dir

\* The with block is left, by return or by exception: the temporary
\* directory it created is removed.
ExitScope(dir) == IF dir = "exists" THEN "deleted" ELSE dir

\* with tempfile.TemporaryDirectory(...): the directory is created.
EnterTempDir ==
    /\ pc = "run" /\ Ready
    /\ tmpdir' = "exists"
    /\ pc' = "scope"
    /\ UNCHANGED <<variant, debug, language, rawInput, code, status, output, result,
                   outcome, launches, tracker, failArgs>>
    /\ UNCHANGED <<emVars, fnVars>>

\* No interpreter for the language: RuntimeError, caught by the outer try.
NoInterpreter ==
    /\ pc = "scope"
    /\ Interpreter(language) = None
    /\ status' = "UNKNOWN"
    /\ tmpdir' = ExitScope(tmpdir)
    /\ failArgs' = [message |-> Unhandled("Cannot find interpreter for language"),
                    status |-> DefaultFailStatus]
    /\ pc' = "fail"
    /\ UNCHANGED <<variant, debug, language, rawInput, code, output, result, outcome,
                   launches, tracker>>
    /\ UNCHANGED <<emVars, fnVars>>

\* The process exits and the code goes on to publish the tracker again.
RunExit ==
    /\ pc = "scope"
    /\ Interpreter(language) /= None
    /\ \E oc \in Outcomes :
          /\ oc.kind = "exit"
          /\ variant = "action" => oc.returncode = 0
          /\ outcome' = oc
          /\ status' = ClassifyExit(oc).status
          /\ output' = TrimOutput(ClassifyExit(oc).output)
          /\ tracker' = SetOutput(tracker, TrimOutput(ClassifyExit(oc).output))
          /\ EmCodeExecution(SetOutput(tracker, TrimOutput(ClassifyExit(oc).output)))
    /\ launches' = launches + 1
    /\ pc' = "republished"
    /\ UNCHANGED <<variant, debug, language, rawInput, code, result, tmpdir, failArgs>>
    /\ UNCHANGED <<emRest, fnVars>>

\* Action.action raises CalledProcessError on a non-zero exit and its handler
\* awaits emitter.fail first.
RunExitRaise ==
    /\ pc = "scope"
    /\ variant = "action"
    /\ Interpreter(language) /= None
    /\ \E oc \in Outcomes :
          /\ oc.kind = "exit"
          /\ oc.returncode /= 0
          /\ outcome' = oc
          /\ status' = ClassifyExit(oc).status
          /\ output' = ClassifyExit(oc).output
    /\ EmFail([text |-> <<T(language), ": CalledProcessError">>, len |-> 64])
    /\ launches' = launches + 1
    /\ pc' = "error_failed"
    /\ UNCHANGED <<variant, debug, language, rawInput, code, result, tmpdir, tracker,
                   failArgs>>
    /\ UNCHANGED <<emRest, fnVars>>

\* A slip in the handler of CalledProcessError: it reads e.output, the
\* standard output.
ErrorOutputFromStdout(oc) == oc.stdout

\* output = e.stderr in the handler of CalledProcessError, which was raised
\* with stderr=result.stderr and output=result.stdout.
ErrorOutput(oc) == oc.stderr

AfterErrorFail ==
    /\ pc = "error_failed" /\ Ready
    /\ status' = "ERROR"
    /\ output' = TrimOutput(ErrorOutput(outcome))
    /\ tracker' = SetOutput(SetError(tracker, <<T(language), ": CalledProcessError">>),
                            TrimOutput(ErrorOutput(outcome)))
    /\ EmCodeExecution(SetOutput(SetError(tracker, <<T(language), ": CalledProcessError">>),
                                 TrimOutput(ErrorOutput(outcome))))
    /\ pc' = "republished"
    /\ UNCHANGED <<variant, debug, language, rawInput, code, result, outcome, launches,
                   tmpdir, failArgs>>
    /\ UNCHANGED <<emRest, fnVars>>

\* subprocess.TimeoutExpired: the handler awaits emitter.fail first.
RunTimeout ==
    /\ pc = "scope"
    /\ Interpreter(language) /= None
    /\ \E oc \in Outcomes :
          /\ oc.kind = "timeout"
          /\ outcome' = oc
    /\ status' = "UNKNOWN"
    /\ EmFail(TimedOutDesc)
    /\ launches' = launches + 1
    /\ pc' = "timeout_failed"
    /\ UNCHANGED <<variant, debug, language, rawInput, code, output, result, tmpdir,
                   tracker, failArgs>>
    /\ UNCHANGED <<emRest, fnVars>>

\* A slip in the timeout handler: the subprocess is started again.
AfterTimeoutFailRetries ==
    /\ pc = "timeout_failed" /\ Ready
    /\ pc' = "scope"
    /\ UNCHANGED reqVarsButPc
    /\ UNCHANGED <<emVars, fnVars>>

AfterTimeoutFail ==
    /\ pc = "timeout_failed" /\ Ready
    /\ status' = "TIMEOUT"
    /\ output' = TrimOutput(outcome.stderr)
    /\ tracker' = SetOutput(SetError(tracker, TimedOutText), TrimOutput(outcome.stderr))
    /\ EmCodeExecution(SetOutput(SetError(tracker, TimedOutText),
                                 TrimOutput(outcome.stderr)))
    /\ pc' = "republished"
    /\ UNCHANGED <<variant, debug, language, rawInput, code, result, outcome, launches,
                   tmpdir, failArgs>>
    /\ UNCHANGED <<emRest, fnVars>>

\* subprocess.run raises something else: caught by the outer try.
RunOtherException ==
    /\ pc = "scope"
    /\ Interpreter(language) /= None
    /\ \E oc \in Outcomes :
          /\ oc.kind = "oserror"
          /\ outcome' = oc
    /\ status' = "UNKNOWN"
    /\ launches' = launches + 1
    /\ tmpdir' = ExitScope(tmpdir)
    /\ failArgs' = [message |-> Unhandled("OSError"), status |-> DefaultFailStatus]
    /\ pc' = "fail"
    /\ UNCHANGED <<variant, debug, language, rawInput, code, output, result, tracker>>
    /\ UNCHANGED <<emVars, fnVars>>

DebugStatus ==
    /\ pc = "republished" /\ Ready
    /\ debug
    /\ EmStatus([text |-> <<"[DEBUG MODE] status=", status>>, len |-> 64],
                IF status = "OK" THEN "complete" ELSE "error", TRUE)
    /\ pc' = "debugged"
    /\ UNCHANGED reqVarsButPc
    /\ UNCHANGED <<emRest, fnVars>>

\* The final message by status; any other status raises RuntimeError, and
\* so does output.strip() on None in the OK text of Tools._run_code.
FinalMessage ==
    /\ pc = "debugged" \/ (pc = "republished" /\ ~debug)
    /\ Ready
    /\ IF status \in {"OK", "TIMEOUT", "ERROR"}
          /\ ~(variant = "tools" /\ status = "OK" /\ output = NoText)
       THEN /\ EmMessage(MessageContent)
            /\ pc' = IF variant = "tools" THEN "final_citation" ELSE "return"
            /\ UNCHANGED <<tmpdir, failArgs>>
       ELSE /\ tmpdir' = ExitScope(tmpdir)
            /\ failArgs' = [message |-> Unhandled("Unexplained status"),
                            status |-> DefaultFailStatus]
            /\ pc' = "fail"
            /\ UNCHANGED <<emitted_status, queue>>
    /\ UNCHANGED <<variant, debug, language, rawInput, code, status, output, result,
                   outcome, launches, tracker>>
    /\ UNCHANGED <<emRest, fnVars>>

\* Tools._run_code publishes the tracker once more before it returns.
FinalCitation ==
    /\ pc = "final_citation" /\ Ready
    /\ EmCodeExecution(tracker)
    /\ pc' = "return"
    /\ UNCHANGED reqVarsButPc
    /\ UNCHANGED <<emRest, fnVars>>

Return ==
    /\ pc = "return" /\ Ready
    /\ tmpdir' = ExitScope(tmpdir)
    /\ result' = [status |-> status, output |-> output]
    /\ pc' = "returned"
    /\ UNCHANGED <<variant, debug, language, rawInput, code, status, output, outcome,
                   launches, tracker, failArgs>>
    /\ UNCHANGED <<emVars, fnVars>>

\* _fail of Tools._run_code: with a tracker, set_error and publish it.
FailCitation ==
    /\ pc = "fail" /\ Ready
    /\ variant = "tools" /\ tracker.created
    /\ tracker' = SetError(tracker, failArgs.message)
    /\ EmCodeExecution(SetError(tracker, failArgs.message))
    /\ pc' = "fail_status"
    /\ UNCHANGED <<variant, debug, language, rawInput, code, status, output, result,
                   outcome, launches, tmpdir, failArgs>>
    /\ UNCHANGED <<emRest, fnVars>>

FailStatus ==
    /\ pc = "fail_status" \/ (pc = "fail" /\ ~(variant = "tools" /\ tracker.created))
    /\ Ready
    /\ EmFail(IF debug
              THEN [text |-> <<"[DEBUG MODE] ">> \o failArgs.message, len |-> 128]
              ELSE [text |-> failArgs.message, len |-> 64])
    /\ pc' = "fail_return"
    /\ UNCHANGED reqVarsButPc
    /\ UNCHANGED <<emRest, fnVars>>

FailReturn ==
    /\ pc = "fail_return" /\ Ready
    /\ result' = FailResult(failArgs)
    /\ pc' = "returned"
    /\ UNCHANGED <<variant, debug, language, rawInput, code, status, output, outcome,
                   launches, tmpdir, tracker, failArgs>>
    /\ UNCHANGED <<emVars, fnVars>>

(***************************************************************************)
(* The sink.  An asynchronous sink returns an awaitable and _emit awaits   *)
(* it; a faulty sink may raise from any invocation.                        *)
(***************************************************************************)
SinkInvoke ==
    /\ queue /= <<>> /\ Awaited
    /\ log' = Append(log, Head(queue))
    /\ queue' = Tail(queue)
    /\ inflight' = IF sinkKind = "async" THEN inflight + 1 ELSE inflight
    /\ UNCHANGED <<sinkKind, emitted_status, status_prefix, sinkRaised>>
    /\ UNCHANGED <<reqVars, fnVars>>

SinkComplete ==
    /\ inflight > 0
    /\ inflight' = inflight - 1
    /\ UNCHANGED <<sinkKind, emitted_status, status_prefix, queue, log, sinkRaised>>
    /\ UNCHANGED <<reqVars, fnVars>>

SinkRaises ==
    /\ sinkKind = "faulty"
    /\ queue /= <<>> /\ Awaited
    /\ log' = Append(log, Head(queue))
    /\ queue' = <<>>
    /\ sinkRaised' = TRUE
    /\ UNCHANGED <<sinkKind, emitted_status, status_prefix, inflight>>

\* The exception leaves _emit inside the outer try: the temporary directory
\* is removed and the handler calls _fail.
SinkRaiseInTry ==
    /\ pc \in GuardedPcs
    /\ SinkRaises
    /\ tmpdir' = ExitScope(tmpdir)
    /\ failArgs' = [message |-> Unhandled("sink"), status |-> DefaultFailStatus]
    /\ pc' = "fail"
    /\ UNCHANGED <<variant, debug, language, rawInput, code, status, output, result,
                   outcome, launches, tracker>>
    /\ UNCHANGED fnVars

\* The exception leaves _emit inside _fail: nothing catches it.
SinkRaiseInFail ==
    /\ pc \in {"fail_status", "fail_return"}
    /\ SinkRaises
    /\ pc' = "raised"
    /\ UNCHANGED reqVarsButPc
    /\ UNCHANGED fnVars

Next ==
    \/ ToolsBegin
    \/ ActionBegin
    \/ PublishTracker
    \/ EnterTempDir
    \/ NoInterpreter
    \/ RunExit
    \/ RunExitRaise
    \/ AfterErrorFail
    \/ RunTimeout
    \/ AfterTimeoutFail
    \/ RunOtherException
    \/ DebugStatus
    \/ FinalMessage
    \/ FinalCitation
    \/ Return
    \/ FailCitation
    \/ FailStatus
    \/ FailReturn
    \/ SinkInvoke
    \/ SinkComplete
    \/ SinkRaiseInTry
    \/ SinkRaiseInFail

Spec == Init /\ [][Next]_vars

(***************************************************************************)
(* Properties of a request (under Spec).                                   *)
(***************************************************************************)
Ended == pc \in {"returned", "raised"}

FinalStatuses == {"OK", "ERROR", "TIMEOUT", "INVALID_INPUT", "SANDBOX_ERROR"}

\* C1: a request that returns reports one of OK, ERROR, TIMEOUT, INVALID_INPUT,
\* SANDBOX_ERROR, never UNKNOWN; when its local status is still UNKNOWN at the
\* end (an internal fault was raised), it returns SANDBOX_ERROR.
C1_ReturnedStatusIsFinal ==
    pc = "returned" =>
        /\ result.status \in FinalStatuses
        /\ status = "UNKNOWN" => result.status = "SANDBOX_ERROR"

\* A request returned while its local status was still UNKNOWN.
C1_Witness ==
    pc = "returned" /\ status = "UNKNOWN" /\ result.status = "SANDBOX_ERROR"

\* C2: whatever the sink does, the call ends by returning a result, never by
\* raising.
C2_NeverRaises == pc /= "raised"

\* C3: when no sink invocation raised, the result follows from what the
\* subprocess did: exit 0 -> OK with the trimmed stdout, another exit code ->
\* ERROR with the trimmed stderr, timeout -> TIMEOUT with the trimmed partial
\* stderr (None when none was read); OK only after exit 0 and TIMEOUT only
\* after a timeout.
C3_ResultFollowsOutcome ==
    /\ (Ended /\ ~sinkRaised /\ outcome.kind = "exit" /\ outcome.returncode = 0) =>
            /\ pc = "returned"
            /\ result = [status |-> "OK", output |-> Strip(outcome.stdout)]
    /\ (Ended /\ ~sinkRaised /\ outcome.kind = "exit" /\ outcome.returncode /= 0) =>
            /\ pc = "returned"
            /\ result = [status |-> "ERROR", output |-> Strip(outcome.stderr)]
    /\ (Ended /\ ~sinkRaised /\ outcome.kind = "timeout") =>
            /\ pc = "returned"
            /\ result = [status |-> "TIMEOUT",
                         output |-> IF outcome.stderr = NoText THEN NoText
                                    ELSE Strip(outcome.stderr)]
    /\ (pc = "returned" /\ result.status = "OK") =>
            (outcome.kind = "exit" /\ outcome.returncode = 0)
    /\ (pc = "returned" /\ result.status = "TIMEOUT") => outcome.kind = "timeout"

\* A transcript request returned ERROR with the trimmed standard error.
C3_Witness ==
    /\ pc = "returned" /\ variant = "action" /\ ~sinkRaised
    /\ outcome.kind = "exit" /\ outcome.returncode = 2
    /\ outcome.stderr = <<"b", "o", "o", "m", NL>>
    /\ result = [status |-> "ERROR", output |-> <<"b", "o", "o", "m">>]

\* The body passes the three validations of Action.action.
WellFormed(body) ==
    /\ body.has_messages /\ body.messages /= <<>>
    /\ LastMessage(body).role = "assistant"
    /\ Len(Split(LastMessage(body).content, Fence)) >= 3
    /\ Len(Split(LastMessage(body).content, Fence)) % 2 = 1

\* No block of the last message is tagged, and the last block matches none of
\* the shebang, Python-token and shell-token heuristics.
NothingRecognized(body) ==
    LET segs == Split(LastMessage(body).content, Fence)
    IN  /\ \A i \in 1..Len(segs) :
              i % 2 = 0 => ~IsPythonTagged(segs[i]) /\ ~IsShellTagged(segs[i])
        /\ Fallback(segs[Len(segs) - 1]) = NoChoice

\* C4: well-formed fences but no block recognized as Python or shell: the
\* request fails with INVALID_INPUT.
C4_UnrecognizedIsInvalidInput ==
    (pc = "returned" /\ variant = "action" /\ WellFormed(rawInput.body)
        /\ NothingRecognized(rawInput.body))
    => result.status = "INVALID_INPUT"

\* C5: a body with no messages, a last message not from the assistant, fewer
\* than 3 segments or an even number of them: the request returns
\* INVALID_INPUT and launches no subprocess (the call ends otherwise only
\* when the sink raised from the failure notification).
C5_MalformedIsInvalidInput ==
    (variant = "action" /\ ~WellFormed(rawInput.body)) =>
        /\ launches = 0 /\ outcome = NoOutcome /\ tmpdir = "absent"
        /\ pc = "returned" => result.status = "INVALID_INPUT"
        /\ pc = "raised" => sinkRaised
        /\ (Ended /\ ~sinkRaised) => pc = "returned"

\* A transcript with an even number of segments was rejected.
C5_Witness ==
    /\ pc = "returned" /\ variant = "action"
    /\ rawInput.body.has_messages /\ rawInput.body.messages /= <<>>
    /\ LastMessage(rawInput.body).role = "assistant"
    /\ Len(Split(LastMessage(rawInput.body).content, Fence)) = 4
    /\ result.status = "INVALID_INPUT"

(***************************************************************************)
(* The Source Selector alone: the message is drawn from the texts with up  *)
(* to MaxBlocks fenced blocks, and the selection of Action.action (lines   *)
(* 41 to 90) is applied to it.                                             *)
(***************************************************************************)
BlockTexts ==
    { PythonWord \o <<NL, "a">>,
      Python3Word \o <<NL, "b">>,
      BashWord \o <<NL, "c">>,
      ShWord \o <<NL, "d">>,
      ShellWord \o <<NL, "e">>,
      <<"z">>,
      ImportSp \o <<"q">>,
      EchoSp \o <<"r">>,
      Shebang \o <<"/">> \o ShWord \o <<NL, "s">> }

RECURSIVE FencedBlocks(_)
FencedBlocks(blocks) ==
    IF blocks = <<>> THEN <<>>
    ELSE Fenced(Head(blocks)) \o <<"t">> \o FencedBlocks(Tail(blocks))

\* Text, then each block between fences followed by text; dangling adds one
\* unmatched fence.
Content(blocks, dangling) ==
    <<"t">> \o FencedBlocks(blocks) \o (IF dangling THEN Fence ELSE <<>>)

SelectorBodies ==
    { NoMessagesKey, Body(<<>>) }
    \cup { Body(<<Msg(role, Content(blocks, dangling))>>) :
             role \in {"assistant", "user"},
             blocks \in UNION { [1..n -> BlockTexts] : n \in 0..MaxBlocks },
             dangling \in BOOLEAN }

IdleRequest ==
    /\ variant = "none"
    /\ debug = FALSE
    /\ language = None
    /\ rawInput = [code |-> NoText, body |-> NoBody]
    /\ code = NoText
    /\ status = None
    /\ output = NoText
    /\ result = NoResult
    /\ outcome = NoOutcome
    /\ launches = 0
    /\ tmpdir = "absent"
    /\ failArgs = NoFail

IdleEmitter ==
    /\ sinkKind = "absent"
    /\ emitted_status = FALSE
    /\ status_prefix = NoPrefix
    /\ queue = <<>>
    /\ inflight = 0
    /\ log = <<>>
    /\ sinkRaised = FALSE

SelectorInit ==
    /\ IdleRequest
    /\ tracker = NoTracker
    /\ IdleEmitter
    /\ pc = "select"
    /\ calls = <<>>
    /\ IdleLoop
    /\ fnArg \in SelectorBodies
    /\ fnRes = <<>>

\* The body passes the validations and a block is looked for.
SelectBlock ==
    /\ pc = "select"
    /\ ValidationError(fnArg) = None
    /\ fnRes' = <<ChooseBlock(SplitThreeBackticks(fnArg))>>
    /\ pc' = "selected"
    /\ UNCHANGED <<reqVarsButPc, emVars, calls, fnArg, loopVars>>

\* A validation rejects the body.
RejectBody ==
    /\ pc = "select"
    /\ ValidationError(fnArg) /= None
    /\ fnRes' = <<NoChoice>>
    /\ pc' = "rejected"
    /\ UNCHANGED <<reqVarsButPc, emVars, calls, fnArg, loopVars>>

SelectorNext == SelectBlock \/ RejectBody

SelectorSpec == SelectorInit /\ [][SelectorNext]_vars

Segments == Split(LastMessage(fnArg).content, Fence)

PythonTaggedAt == { i \in 1..Len(Segments) : i % 2 = 0 /\ IsPythonTagged(Segments[i]) }
ShellTaggedAt == { i \in 1..Len(Segments) : i % 2 = 0 /\ IsShellTagged(Segments[i]) }

Newest(S) == CHOOSE i \in S : \A j \in S : j <= i
Oldest(S) == CHOOSE i \in S : \A j \in S : j >= i

\* C6: with no Shell-tagged block and at least one Python-tagged block, the
\* block selected is the newest (last in the text) Python-tagged block.
C6_NewestPythonSelected ==
    (pc = "selected" /\ ShellTaggedAt = {} /\ PythonTaggedAt /= {}) =>
        fnRes[1] = [block |-> Segments[Newest(PythonTaggedAt)], language |-> "python"]

\* What the scan does there: it selects the oldest (first in the text)
\* Python-tagged block.
C6_OldestPythonSelected ==
    (pc = "selected" /\ ShellTaggedAt = {} /\ PythonTaggedAt /= {}) =>
        fnRes[1] = [block |-> Segments[Oldest(PythonTaggedAt)], language |-> "python"]

\* C7: with at least one Shell-tagged block, the newest Shell-tagged block is
\* selected, with language Shell, wherever the Python-tagged blocks stand.
C7_NewestShellSelected ==
    (pc = "selected" /\ ShellTaggedAt /= {}) =>
        fnRes[1] = [block |-> Segments[Newest(ShellTaggedAt)], language |-> "bash"]

\* The Shell-tagged block was selected from between an older and a newer
\* Python-tagged block.
C7_Witness ==
    /\ pc = "selected"
    /\ ShellTaggedAt /= {}
    /\ \E i \in PythonTaggedAt : i < Newest(ShellTaggedAt)
    /\ \E i \in PythonTaggedAt : i > Newest(ShellTaggedAt)
    /\ fnRes[1].language = "bash"

(***************************************************************************)
(* The Code Normalizer alone: the text is drawn from the texts of up to    *)
(* MaxNormTokens pieces, and normalized once and then once more.           *)
(***************************************************************************)
NormPieces(lang) == { <<BT>>, <<SP>>, <<NL>>, <<"x">>, LangWord(lang) }

NormTexts(lang) ==
    { Flatten(pieces) :
        pieces \in UNION { [1..n -> NormPieces(lang)] : n \in 0..MaxNormTokens } }

NormalizerInit ==
    /\ IdleRequest
    /\ tracker = NoTracker
    /\ IdleEmitter
    /\ pc = "normalize"
    /\ calls = <<>>
    /\ IdleLoop
    /\ \E lang \in {"python", "bash"} :
          fnArg \in { [language |-> lang, text |-> t] : t \in NormTexts(lang) }
    /\ fnRes = <<>>

NormalizeOnce ==
    /\ pc = "normalize"
    /\ fnRes' = <<Normalize(fnArg.language, fnArg.text)>>
    /\ pc' = "normalized"
    /\ UNCHANGED <<reqVarsButPc, emVars, calls, fnArg, loopVars>>

NormalizeAgain ==
    /\ pc = "normalized"
    /\ fnRes' = Append(fnRes, Normalize(fnArg.language, fnRes[1]))
    /\ pc' = "renormalized"
    /\ UNCHANGED <<reqVarsButPc, emVars, calls, fnArg, loopVars>>

NormalizerNext == NormalizeOnce \/ NormalizeAgain

NormalizerSpec == NormalizerInit /\ [][NormalizerNext]_vars

\* C8: normalizing normalized code changes nothing.
C8_NormalizeIdempotent == pc = "renormalized" => fnRes[2] = fnRes[1]

(***************************************************************************)
(* One EventEmitter alone: a caller makes up to MaxCalls method calls on   *)
(* it, in any order, awaiting each.  calls records each call: its method,  *)
(* its description or content argument (arg) and its done argument         *)
(* (arg_done), how many sink invocations had been made when it began       *)
(* (start), whether it returned (done) or the sink raised out of it        *)
(* (raised).                                                               *)
(***************************************************************************)
SampleTracker == NewTracker(<<"Python", " tool execution">>, <<"x">>, "python")

StatusDescriptions == { Desc("at the limit", 1024), Desc("over the limit", 1025) }
MessageContents == { Desc("short", 5), Desc("long", 4096) }
SamplePrefix == Desc("#", 1)

EmitterCallerInit ==
    /\ IdleRequest
    /\ tracker = SampleTracker
    /\ EmitterInit
    /\ pc = "idle"
    /\ calls = <<>>
    /\ IdleLoop
    /\ fnArg = <<>>
    /\ fnRes = <<>>

BeginCall(method, arg, arg_done) ==
    /\ pc = "idle"
    /\ Len(calls) < MaxCalls
    /\ calls' = Append(calls, [method |-> method, arg |-> arg, arg_done |-> arg_done,
                               start |-> Len(log), done |-> FALSE, raised |-> FALSE])
    /\ pc' = "calling"
    /\ UNCHANGED <<reqVarsButPc, emRest, fnArg, fnRes, loopVars>>

CallStatus ==
    \E description \in StatusDescriptions, done \in BOOLEAN :
        /\ BeginCall("status", description, done)
        /\ EmStatus(description, "in_progress", done)

CallFail ==
    /\ BeginCall("fail", Desc("Unknown error", 13), TRUE)
    /\ EmFail(Desc("Unknown error", 13))

CallClearStatus ==
    /\ BeginCall("clear_status", EmptyDesc, TRUE)
    /\ EmClearStatus

CallMessage ==
    \E content \in MessageContents :
        /\ BeginCall("message", content, FALSE)
        /\ EmMessage(content)

CallCodeExecution ==
    /\ BeginCall("code_execution", EmptyDesc, FALSE)
    /\ EmCodeExecution(tracker)

CallSetStatusPrefix ==
    /\ pc = "idle"
    /\ Len(calls) < MaxCalls
    /\ status_prefix = NoPrefix
    /\ status_prefix' = SamplePrefix
    /\ calls' = Append(calls, [method |-> "set_status_prefix", arg |-> SamplePrefix,
                               arg_done |-> FALSE, start |-> Len(log),
                               done |-> TRUE, raised |-> FALSE])
    /\ UNCHANGED <<reqVars, fnArg, fnRes, loopVars>>
    /\ UNCHANGED <<sinkKind, emitted_status, queue, inflight, log, sinkRaised>>

\* The awaited method returns: _emit has made its invocations and the last
\* awaitable has completed.
CallReturns ==
    /\ pc = "calling" /\ Ready
    /\ calls' = [calls EXCEPT ![Len(calls)].done = TRUE]
    /\ pc' = "idle"
    /\ UNCHANGED <<reqVarsButPc, emVars, fnArg, fnRes, loopVars>>

\* The sink raises and the exception reaches the caller of the method.
SinkRaiseInCall ==
    /\ pc = "calling"
    /\ SinkRaises
    /\ calls' = [calls EXCEPT ![Len(calls)].raised = TRUE]
    /\ pc' = "idle"
    /\ UNCHANGED <<reqVarsButPc, fnArg, fnRes, loopVars>>

EmitterNext ==
    \/ CallStatus
    \/ CallFail
    \/ CallClearStatus
    \/ CallMessage
    \/ CallCodeExecution
    \/ CallSetStatusPrefix
    \/ CallReturns
    \/ SinkInvoke
    \/ SinkComplete
    \/ SinkRaiseInCall

EmitterSpec == EmitterCallerInit /\ [][EmitterNext]_vars

\* The sink invocations made by call i.
Invocations(i) ==
    SubSeq(log, calls[i].start + 1,
           IF i < Len(calls) THEN calls[i + 1].start ELSE Len(log))

\* C9: with a sink, a code_execution call that returns made exactly two sink
\* invocations, both with the citation payload, and a message call that
\* returns made exactly one, with a message payload.
C9_CitationTwiceMessageOnce ==
    \A i \in 1..Len(calls) :
        (calls[i].done /\ sinkKind /= "absent") =>
            /\ calls[i].method = "code_execution" =>
                    Invocations(i) = << [type |-> "citation", data |-> CitationData(tracker)],
                                        [type |-> "citation", data |-> CitationData(tracker)] >>
            /\ calls[i].method = "message" =>
                    /\ Len(Invocations(i)) = 1
                    /\ Invocations(i)[1].type = "message"

\* An asynchronous sink received a citation twice and a long message once.
C9_Witness ==
    /\ sinkKind = "async"
    /\ \E i \in 1..Len(calls) :
          calls[i].done /\ calls[i].method = "code_execution" /\ Len(Invocations(i)) = 2
    /\ \E i \in 1..Len(calls) :
          /\ calls[i].done /\ calls[i].method = "message"
          /\ Invocations(i) = << [type |-> "message", data |-> [content |-> Desc("long", 4096)]] >>

\* A status or fail call was made before call i and no clear_status between.
StatusSinceClear(i) ==
    \E j \in 1..(i - 1) :
        /\ calls[j].method \in {"status", "fail"}
        /\ \A k \in (j + 1)..(i - 1) : calls[k].method /= "clear_status"

ClearPayload ==
    [type |-> "status",
     data |-> [status |-> "complete", description |-> EmptyDesc, done |-> TRUE]]

\* C10: a clear_status call that returns made no sink invocation when no
\* status or fail call came since construction or the previous clear_status
\* (or there is no sink); otherwise it delivered the empty complete status
\* exactly twice; and between calls the emitted flag says whether a status or
\* fail call came since the last clear_status.
C10_ClearStatus ==
    /\ \A i \in 1..Len(calls) :
          (calls[i].method = "clear_status" /\ calls[i].done) =>
              Invocations(i) = IF StatusSinceClear(i) /\ sinkKind /= "absent"
                               THEN <<ClearPayload, ClearPayload>>
                               ELSE <<>>
    /\ pc = "idle" => (emitted_status <=> StatusSinceClear(Len(calls) + 1))

\* status, then a clear_status that delivered twice, then one that delivered
\* nothing.
C10_Witness ==
    /\ Len(calls) = 3 /\ pc = "idle" /\ sinkKind = "sync"
    /\ calls[1].method = "status" /\ calls[2].method = "clear_status"
    /\ calls[3].method = "clear_status" /\ calls[3].done
    /\ Len(Invocations(2)) = 2 /\ Len(Invocations(3)) = 0

\* No set_status_prefix call came before call i.
NoPrefixBefore(i) == \A j \in 1..(i - 1) : calls[j].method /= "set_status_prefix"

StatusPayload(st, description, done) ==
    [type |-> "status",
     data |-> [status |-> st, description |-> description, done |-> done]]

\* C11: with a sink and no status prefix configured, a status call that
\* returns delivered its notification exactly twice when done is false and
\* the description has at most 1024 characters, and exactly once otherwise;
\* a fail call that returns delivered its notification (severity error,
\* done) exactly once.
C11_StatusTwiceOrOnce ==
    \A i \in 1..Len(calls) :
        (calls[i].done /\ sinkKind /= "absent" /\ NoPrefixBefore(i)) =>
            /\ calls[i].method = "status" =>
                  Invocations(i) =
                      IF ~calls[i].arg_done /\ calls[i].arg.len <= 1024
                      THEN << StatusPayload("in_progress", calls[i].arg, FALSE),
                              StatusPayload("in_progress", calls[i].arg, FALSE) >>
                      ELSE << StatusPayload("in_progress", calls[i].arg, calls[i].arg_done) >>
            /\ calls[i].method = "fail" =>
                  Invocations(i) = << StatusPayload("error", calls[i].arg, TRUE) >>

\* A status of 1024 characters was delivered twice, one of 1025 characters
\* once, both not done, and a fail once.
C11_Witness ==
    /\ Len(calls) = 3 /\ pc = "idle" /\ sinkKind = "async"
    /\ calls[1].method = "status" /\ ~calls[1].arg_done /\ calls[1].arg.len = 1024
    /\ Len(Invocations(1)) = 2
    /\ calls[2].method = "status" /\ ~calls[2].arg_done /\ calls[2].arg.len = 1025
    /\ Len(Invocations(2)) = 1
    /\ calls[3].method = "fail" /\ calls[3].done /\ Len(Invocations(3)) = 1

\* Every status notification call i delivered begins with the prefix.
DeliveredWithPrefix(i) ==
    \A k \in 1..Len(Invocations(i)) :
        Invocations(i)[k].type = "status" =>
            StartsWith(Invocations(i)[k].data.description.text, SamplePrefix.text)

\* C16 as stated: once a status prefix is set, every status notification
\* delivered afterwards has a description that begins with the prefix,
\* whether status, fail or clear_status produced it.
C16_EveryStatusPrefixed ==
    \A i \in 1..Len(calls) : ~NoPrefixBefore(i) => DeliveredWithPrefix(i)

\* C16 as amended: once a status prefix is set, every notification that
\* status or fail delivers afterwards has the prefix followed by the call's
\* description as its description; every notification clear_status delivers
\* has the empty description, without the prefix.
C16_StatusAndFailPrefixed ==
    \A i \in 1..Len(calls) :
        ~NoPrefixBefore(i) =>
            \A k \in 1..Len(Invocations(i)) :
                /\ calls[i].method \in {"status", "fail"} =>
                      /\ Invocations(i)[k].type = "status"
                      /\ Invocations(i)[k].data.description =
                            ConcatDesc(SamplePrefix, calls[i].arg)
                      /\ DeliveredWithPrefix(i)
                /\ calls[i].method = "clear_status" =>
                      Invocations(i)[k].data.description = EmptyDesc

\* After set_status_prefix, a fail delivered the prefixed description and a
\* clear_status delivered the empty one twice.
C16_Witness ==
    /\ Len(calls) = 3 /\ pc = "idle" /\ sinkKind = "sync"
    /\ calls[1].method = "set_status_prefix"
    /\ calls[2].method = "fail"
    /\ Len(Invocations(2)) = 1
    /\ Invocations(2)[1].data.description.text = SamplePrefix.text \o calls[2].arg.text
    /\ calls[3].method = "clear_status" /\ calls[3].done
    /\ Len(Invocations(3)) = 2
    /\ Invocations(3)[1].data.description = EmptyDesc

(***************************************************************************)
(* Properties of the notifications of a request (under Spec).              *)
(***************************************************************************)
\* The message notifications delivered so far, in order.
Messages == SelectSeq(log, LAMBDA e : e.type = "message")

\* The variant of the final message a result calls for.
ExpectedMessageKind(res) ==
    IF res.status = "OK" THEN "ok"
    ELSE IF res.status = "TIMEOUT"
    THEN (IF Falsy(res.output) THEN "timeout" ELSE "timeout_error")
    ELSE (IF Falsy(res.output) THEN "unexplained_error" ELSE "error")

\* C12: a request with a sink that returns OK, ERROR or TIMEOUT delivered
\* exactly one message notification, of the variant its result calls for:
\* the success text for OK, the timeout text with the error block for TIMEOUT
\* with output, the timeout text alone for TIMEOUT with empty or no output,
\* the error text with the error block for ERROR with output, the generic
\* text for ERROR with empty or no output; an embedded output is the
\* returned output.
C12_OneFinalMessage ==
    (pc = "returned" /\ result.status \in {"OK", "ERROR", "TIMEOUT"}
        /\ sinkKind /= "absent") =>
        /\ Len(Messages) = 1
        /\ Messages[1].data.content.kind = ExpectedMessageKind(result)
        /\ Messages[1].data.content.output =
              IF ExpectedMessageKind(result) \in {"ok", "timeout_error", "error"}
              THEN result.output
              ELSE NoText

\* ERROR with an empty standard error: the generic text was delivered, once.
C12_Witness ==
    /\ pc = "returned" /\ sinkKind = "async"
    /\ result = [status |-> "ERROR", output |-> <<>>]
    /\ Len(Messages) = 1
    /\ Messages[1].data.content.kind = "unexplained_error"

\* C13: the temporary directory exists when the subprocess is started, and
\* it no longer exists when the request returns, whether with OK, ERROR or
\* TIMEOUT or with the SANDBOX_ERROR of an exception raised inside the with
\* block.
C13_TempDirScoped ==
    /\ [](pc = "returned" =>
            /\ tmpdir /= "exists"
            /\ launches > 0 => tmpdir = "deleted")
    /\ [][launches' /= launches => tmpdir = "exists"]_vars

\* subprocess.run raised inside the with block and the request returned
\* SANDBOX_ERROR with the directory removed.
C13_Witness ==
    /\ pc = "returned" /\ ~sinkRaised
    /\ outcome.kind = "oserror" /\ launches = 1
    /\ result.status = "SANDBOX_ERROR"
    /\ tmpdir = "deleted"

\* What a request returns, by its inputs and by what the subprocess did
\* alone: the rejection of the transcript, no interpreter, or the
\* classification of the outcome.
ExpectedResult ==
    IF variant = "action" /\ ValidationError(rawInput.body) /= None
    THEN [status |-> "INVALID_INPUT", output |-> <<ValidationError(rawInput.body)>>]
    ELSE IF variant = "action"
            /\ Falsy(ChooseBlock(SplitThreeBackticks(rawInput.body)).block)
    THEN [status |-> "SANDBOX_ERROR",
          output |-> <<"Message does not contain code blocks detected as Python or Bash.">>]
    ELSE IF Interpreter(language) = None
    THEN [status |-> "SANDBOX_ERROR",
          output |-> Unhandled("Cannot find interpreter for language")]
    ELSE IF outcome.kind = "oserror"
    THEN [status |-> "SANDBOX_ERROR", output |-> Unhandled("OSError")]
    ELSE IF outcome.kind = "timeout"
    THEN [status |-> "TIMEOUT",
          output |-> IF Falsy(outcome.stderr) THEN outcome.stderr
                     ELSE Strip(outcome.stderr)]
    ELSE IF outcome.returncode = 0
    THEN [status |-> "OK", output |-> Strip(outcome.stdout)]
    ELSE [status |-> "ERROR", output |-> Strip(outcome.stderr)]

\* C14: with no sink, with a synchronous sink and with an asynchronous one,
\* the request ends by returning, and what it returns is fixed by its inputs,
\* its configuration and the outcome of the subprocess, the same whichever
\* of the three it runs with; with no sink no notification is delivered.
C14_SinkDoesNotInfluenceResult ==
    /\ sinkKind \in {"absent", "sync", "async"} =>
            /\ Ended => pc = "returned"
            /\ pc = "returned" => result = ExpectedResult
    /\ sinkKind = "absent" => log = <<>> /\ queue = <<>> /\ inflight = 0

\* A request with no sink returned OK with the trimmed output and nothing
\* was delivered.
C14_Witness ==
    /\ pc = "returned" /\ sinkKind = "absent" /\ debug
    /\ outcome.kind = "exit" /\ outcome.stdout = <<SP, "h", "i", NL>>
    /\ result = [status |-> "OK", output |-> <<"h", "i">>]
    /\ log = <<>>

\* The outer handler caught an exception raised inside the try block.
CaughtException ==
    failArgs /= NoFail /\ failArgs.message[1] = "Unhandled exception: "

\* The fail notifications (severity error, done) delivered so far.
FailStatuses ==
    SelectSeq(log, LAMBDA e : e.type = "status" /\ e.data.status = "error" /\ e.data.done)

\* C15: a request in which an exception was raised inside the try block ends
\* by returning SANDBOX_ERROR with the exception's message as output, and
\* its sink received exactly one fail notification (severity error, done).
C15_ExceptionIsSandboxError ==
    (Ended /\ CaughtException) =>
        /\ pc = "returned"
        /\ result = [status |-> "SANDBOX_ERROR", output |-> failArgs.message]
        /\ sinkKind /= "absent" => Len(FailStatuses) = 1

\* What holds of C15: when no sink invocation raised (the exception came from
\* the interpreter lookup or from subprocess.run), the request returns
\* SANDBOX_ERROR and one fail notification was delivered.
C15_HoldsWhenSinkDoesNotRaise ==
    (Ended /\ CaughtException /\ ~sinkRaised) =>
        /\ pc = "returned"
        /\ result = [status |-> "SANDBOX_ERROR", output |-> failArgs.message]
        /\ sinkKind /= "absent" => Len(FailStatuses) = 1

\* The request returned OK, ERROR or TIMEOUT and has a sink.
ReturnedClassified ==
    /\ pc = "returned" /\ sinkKind /= "absent"
    /\ result.status \in {"OK", "ERROR", "TIMEOUT"}

\* C17: when a request returns OK, ERROR or TIMEOUT, the final message is the
\* last notification its sink received: no status, citation or message was
\* delivered after it.
C17_MessageIsLast ==
    ReturnedClassified => log /= <<>> /\ log[Len(log)].type = "message"

\* What holds of C17: Action.action returns right after the message, and
\* Tools._run_code delivers the citation twice more after it.
C17_MessageThenCitationInTools ==
    ReturnedClassified =>
        \E m \in 1..Len(log) :
            /\ log[m].type = "message"
            /\ Len(log) = IF variant = "tools" THEN m + 2 ELSE m
            /\ \A k \in (m + 1)..Len(log) : log[k].type = "citation"

\* set_output or set_error has been called on the tracker.
Resolved(tr) == tr.set_output_calls + tr.set_error_calls > 0

\* C18: the citation payload of a tracker has a result exactly when
\* set_output or set_error has been called on it, and so has every citation
\* the sink receives, at the time it receives it; within a request the
\* tracker published first, before the subprocess, has had no such call, and
\* the tracker published after the classification of the subprocess has.
C18_ResultIffResolved ==
    /\ [](tracker.created =>
            (CitationData(tracker).has_result <=> Resolved(tracker)))
    /\ [][\A i \in (Len(log) + 1)..Len(log') :
            log'[i].type = "citation" =>
                (log'[i].data.has_result <=> Resolved(tracker))]_vars
    /\ [](pc \in {"publish", "run", "scope"} => ~Resolved(tracker))
    /\ [](pc \in {"republished", "debugged", "final_citation", "return"} =>
            Resolved(tracker))

\* The sink received the citation without a result before the subprocess and
\* with a result after a timeout.
C18_Witness ==
    /\ pc = "returned" /\ outcome.kind = "timeout" /\ ~sinkRaised
    /\ Len(log) >= 5
    /\ log[1].type = "citation" /\ ~log[1].data.has_result
    /\ log[4].type = "citation" /\ log[4].data.has_result
    /\ log[4].data.result.has_error /\ log[4].data.result.has_output

\* C19: over one request, whatever the path and whatever the sink does,
\* set_error is called at most once on the tracker and set_output at most
\* once.
C19_TrackerUpdatedAtMostTwice ==
    tracker.set_error_calls <= 1 /\ tracker.set_output_calls <= 1

\* What holds of C19: set_output is called at most once and set_error at
\* most twice, and twice only in Tools._run_code when the sink raised after
\* a timeout.
C19_SetErrorTwiceAfterSinkRaised ==
    /\ tracker.set_output_calls <= 1
    /\ tracker.set_error_calls <= 2
    /\ tracker.set_error_calls = 2 =>
            variant = "tools" /\ sinkRaised /\ outcome.kind = "timeout"

\* C20: at most one awaitable returned by the sink is pending at any time,
\* and while one is pending the request makes no sink invocation (the second
\* delivery of a repeated notification included) and takes no further step.
C20_DeliveriesSequential ==
    /\ [](inflight <= 1)
    /\ [][(log' /= log \/ pc' /= pc \/ tracker' /= tracker \/ result' /= result)
            => inflight = 0]_vars

\* The first delivery of a repeated notification is pending at an
\* asynchronous sink and the second has not been made.
C20_Witness ==
    /\ sinkKind = "async" /\ inflight = 1
    /\ log /= <<>> /\ Len(queue) = 1
    /\ queue[1] = log[Len(log)]

\* if output: output = output.strip(), as a result shows it.
Trimmed(text) == IF text = NoText \/ text = <<>> THEN text ELSE Strip(text)

\* What a request whose subprocess was launched returns, by what the
\* subprocess did alone.
CoreResult(oc) ==
    IF oc.kind = "timeout"
    THEN [status |-> "TIMEOUT", output |-> Trimmed(oc.stderr)]
    ELSE IF oc.returncode = 0
    THEN [status |-> "OK", output |-> Trimmed(oc.stdout)]
    ELSE [status |-> "ERROR", output |-> Trimmed(oc.stderr)]

\* C22: Tools._run_code and Action.action return the same status and the
\* same output for the same subprocess outcome (an exit code with stdout and
\* stderr, or a timeout with the partial stderr): what either returns is
\* fixed by the outcome, whichever of the two runs, also for a non-zero exit,
\* where Action.action raises CalledProcessError and catches it and
\* Tools._run_code branches.
C22_VariantsAgreeOnResult ==
    (pc = "returned" /\ ~sinkRaised /\ outcome.kind \in {"exit", "timeout"}) =>
        result = CoreResult(outcome)

\* Action.action returned ERROR with the trimmed standard error through its
\* CalledProcessError handler, which also set the tracker's error.
C22_Witness ==
    /\ pc = "returned" /\ variant = "action" /\ ~sinkRaised
    /\ outcome.kind = "exit" /\ outcome.returncode = 1
    /\ outcome.stdout = <<SP, "h", "i", NL>> /\ outcome.stderr = <<"b", "o", "o", "m", NL>>
    /\ tracker.has_error
    /\ result = [status |-> "ERROR", output |-> <<"b", "o", "o", "m">>]

\* The notifications of the given types delivered so far.
Delivered(types) == { i \in 1..Len(log) : log[i].type \in types }

\* C23: a request calls subprocess.run at most once, whatever the process
\* does (a non-zero exit, a timeout, an exception); a request that returns
\* INVALID_INPUT has not called it, and its sink has received no citation
\* and no message.
C23_SingleAttempt ==
    /\ launches <= 1
    /\ (pc = "returned" /\ result.status = "INVALID_INPUT") =>
            /\ launches = 0 /\ outcome = NoOutcome
            /\ Delivered({"citation", "message"}) = {}

\* The subprocess timed out and the request returned after that one
\* attempt.
C23_Witness ==
    /\ pc = "returned" /\ outcome.kind = "timeout"
    /\ result.status = "TIMEOUT"
    /\ launches = 1

(***************************************************************************)
(* Requests as tasks of one event loop.  The loop has one thread: it runs  *)
(* a task until the task awaits an awaitable that is not complete (the     *)
(* one an asynchronous sink returns) or returns.  subprocess.run is an     *)
(* ordinary call: the thread stays in it until the child process ends.     *)
(* A task is [variant, at, state]: at is the index in Script(variant) of   *)
(* what it does next; state is "ready", "suspended" (on the sink's         *)
(* awaitable), "blocked" (inside subprocess.run) or "returned".            *)
(***************************************************************************)
\* What a request whose process exits with 0 does, in order: the sink
\* invocations of its emitter calls and the call of subprocess.run.
Script(v) ==
    IF v = "tools"
    THEN <<"citation", "citation", "subprocess", "citation", "citation", "message",
           "citation", "citation">>
    ELSE <<"citation", "citation", "subprocess", "citation", "citation", "message">>

TaskIds == 1..MaxTasks

LoopInit ==
    /\ IdleRequest
    /\ tracker = NoTracker
    /\ sinkKind \in {"absent", "sync", "async"}
    /\ emitted_status = FALSE
    /\ status_prefix = NoPrefix
    /\ queue = <<>>
    /\ inflight = 0
    /\ log = <<>>
    /\ sinkRaised = FALSE
    /\ pc = "loop"
    /\ calls = <<>>
    /\ fnArg = <<>>
    /\ fnRes = <<>>
    /\ tasks \in [TaskIds -> { [variant |-> v, at |-> 1, state |-> "ready"] :
                                  v \in {"tools", "action"} }]
    /\ loop = 0

\* The loop's thread can run the code of task t: it is free or already in t.
TaskRuns(t) ==
    /\ loop \in {0, t}
    /\ tasks[t].state = "ready"

LoopFrame == UNCHANGED <<reqVars, emVars, calls, fnArg, fnRes>>

\* _emit invokes the sink.  Without a sink it returns at once; a synchronous
\* sink returns and the task goes on; the awaitable of an asynchronous sink
\* suspends the task and frees the thread.
Notify(t) ==
    /\ TaskRuns(t)
    /\ tasks[t].at <= Len(Script(tasks[t].variant))
    /\ Script(tasks[t].variant)[tasks[t].at] /= "subprocess"
    /\ IF sinkKind = "async"
       THEN /\ tasks' = [tasks EXCEPT ![t].state = "suspended"]
            /\ loop' = 0
       ELSE /\ tasks' = [tasks EXCEPT ![t].at = tasks[t].at + 1]
            /\ loop' = t
    /\ LoopFrame

\* The loop, when its thread is free, completes the awaitable and the task
\* is ready to go on after its await.
AwaitableCompletes(t) ==
    /\ loop = 0
    /\ tasks[t].state = "suspended"
    /\ tasks' = [tasks EXCEPT ![t].state = "ready", ![t].at = tasks[t].at + 1]
    /\ UNCHANGED loop
    /\ LoopFrame

\* subprocess.run is called: the thread waits in it for the child process.
SubprocessStarts(t) ==
    /\ TaskRuns(t)
    /\ tasks[t].at <= Len(Script(tasks[t].variant))
    /\ Script(tasks[t].variant)[tasks[t].at] = "subprocess"
    /\ tasks' = [tasks EXCEPT ![t].state = "blocked"]
    /\ loop' = t
    /\ LoopFrame

\* The child process ends and subprocess.run returns to the task.
SubprocessEnds(t) ==
    /\ tasks[t].state = "blocked"
    /\ tasks' = [tasks EXCEPT ![t].state = "ready", ![t].at = tasks[t].at + 1]
    /\ UNCHANGED loop
    /\ LoopFrame

\* return {"status": status, "output": output}: the task is done and the
\* thread is free.
TaskReturns(t) ==
    /\ TaskRuns(t)
    /\ tasks[t].at = Len(Script(tasks[t].variant)) + 1
    /\ tasks' = [tasks EXCEPT ![t].state = "returned"]
    /\ loop' = 0
    /\ LoopFrame

\* A step task t takes in its own code.
TaskStep(t) == Notify(t) \/ SubprocessStarts(t) \/ TaskReturns(t)

LoopNext ==
    \E t \in TaskIds :
        \/ Notify(t)
        \/ AwaitableCompletes(t)
        \/ SubprocessStarts(t)
        \/ SubprocessEnds(t)
        \/ TaskReturns(t)

LoopSpec == LoopInit /\ [][LoopNext]_vars

\* C21: while the subprocess of one request is running, a sibling request
\* that is ready to go on can take a step.
C21_SiblingNotStarved ==
    \A t \in TaskIds, u \in TaskIds :
        (t /= u /\ tasks[t].state = "blocked" /\ tasks[u].state = "ready") =>
            ENABLED TaskStep(u)

\* What holds of C21: while the subprocess of one request is running, no
\* other task changes, and no awaitable of a sibling completes.
C21_SiblingsWaitForSubprocess ==
    [][\A t \in TaskIds, u \in TaskIds :
          (t /= u /\ tasks[t].state = "blocked") => tasks'[u] = tasks[u]]_vars

====
